---- MODULE Spec2Model ----
(***************************************************************************)
(* Model of the charm.li manifest crawler, src/manuals_downloader.py.      *)
(*                                                                         *)
(* Text is modelled as a sequence of tokens.  A token is either a single   *)
(* character that the code inspects (every character str.strip() removes:  *)
(* SP, TAB, LF, CR, ...; "/", ",", the double quote, a decimal digit), the *)
(* escape "%20", or an atomic word that contains none of those characters  *)
(* ("Toyota", "bundle", "camry-le").  The csv line terminator is the two   *)
(* characters CR LF.  Concatenation of strings is \o, so prefix and suffix *)
(* tests on tokens agree with the tests on characters.                     *)
(*                                                                         *)
(* A listing page is modelled by the sequence, in document order, of its   *)
(* a[href] elements; an element is its href attribute value and the        *)
(* sequence of its text nodes (one per nested piece of markup).            *)
(***************************************************************************)
EXTENDS Integers, Sequences, FiniteSets, TLC

VARIABLES
  pc,        \* position of build_and_write_manifest
  mi,        \* index into MAKES of the make being iterated
  year,      \* year being iterated
  year_url,  \* result of the last probe_year call
  manifest,  \* the in-memory accumulator (list of row dicts)
  file,      \* content of OUTPUT_CSV on disk, or Absent
  trace,     \* observable effects so far: sleeps, requests, unlink, write
  log,       \* the last record the latest step handed to logging, if any
  unit       \* last direct call of probe_year / get_models_for_year

vars == <<pc, mi, year, year_url, manifest, file, trace, log, unit>>

-----------------------------------------------------------------------------
(* Bounds of the model *)

NumMakes == 2
NumYears == 2
MaxLinks == 2

-----------------------------------------------------------------------------
(* Characters and strings *)

SP    == " "
TAB   == "<TAB>"
LF    == "<LF>"
VT    == "<VT>"
FF    == "<FF>"
CR    == "<CR>"
NBSP  == "<NBSP>"
QUOTE == "<QUOTE>"
COMMA == ","

\* The remaining characters for which str.isspace() holds.
OtherSpaces ==
  { "<FS>", "<GS>", "<RS>", "<US>", "<NEL>", "<U+1680>", "<U+2000>", "<U+2001>",
    "<U+2002>", "<U+2003>", "<U+2004>", "<U+2005>", "<U+2006>", "<U+2007>",
    "<U+2008>", "<U+2009>", "<U+200A>", "<U+2028>", "<U+2029>", "<U+202F>",
    "<U+205F>", "<U+3000>" }

\* What str.strip() with no argument removes: U+0009..U+000D, U+001C..U+0020,
\* U+0085, U+00A0 and the Unicode space separators.
Whitespace == {SP, TAB, LF, VT, FF, CR, NBSP} \cup OtherSpaces

lineterminator == <<CR, LF>>

Digits == <<"0", "1", "2", "3", "4", "5", "6", "7", "8", "9">>

RECURSIVE str(_)
str(n) == IF n < 10 THEN <<Digits[n + 1]>>
          ELSE str(n \div 10) \o <<Digits[(n % 10) + 1]>>

RECURSIVE lstrip(_)
lstrip(s) == IF s # <<>> /\ Head(s) \in Whitespace THEN lstrip(Tail(s)) ELSE s

RECURSIVE rstrip(_)
rstrip(s) == IF s # <<>> /\ s[Len(s)] \in Whitespace
             THEN rstrip(SubSeq(s, 1, Len(s) - 1)) ELSE s

strip(s) == rstrip(lstrip(s))

startswith(s, p) == Len(p) <= Len(s) /\ SubSeq(s, 1, Len(p)) = p

endswith(s, p) == Len(p) <= Len(s) /\ SubSeq(s, Len(s) - Len(p) + 1, Len(s)) = p

unquote(s) == [i \in DOMAIN s |-> IF s[i] = "%20" THEN SP ELSE s[i]]

-----------------------------------------------------------------------------
(* Configuration *)

BASE_URL == <<"https://charm.li">>

YEAR_START == 1980

YEAR_END == YEAR_START + NumYears - 1

\* The code lists 52 makes and scans 1980..2024; the model keeps the first
\* NumMakes of four of the makes (one plain, ones with an escaped space) and
\* the first NumYears years.  `disp` (line 67) is computed and never used.
AllMakes == << <<"Toyota">>, <<"Land", "%20", "Rover">>, <<"Saab">>,
               <<"Dodge", "%20", "and", "%20", "Ram">> >>

MAKES == SubSeq(AllMakes, 1, NumMakes)

keys == << <<"make">>, <<"model">>, <<"year">>, <<"bundle_url">> >>

None == <<>>

Absent == [exists |-> FALSE, text |-> <<>>]

OnDisk(text) == [exists |-> TRUE, text |-> text]

-----------------------------------------------------------------------------
(* The remote server *)

\* What one requests.get call does is modelled by a record: the exception it
\* raises (NoException when it returns a response), the status code of the last
\* response received, the body r.text, and the redirects it followed.

NoException == "NoException"

\* Subclasses of RequestException: the `except` clauses catch them.
RequestExceptions == {"Timeout", "ConnectionError"}

\* Not a RequestException: requests.get decodes the Location header of a 3xx
\* response as UTF-8 before following it, and raises UnicodeDecodeError when
\* the header holds other bytes.
OtherExceptions == {"UnicodeDecodeError"}

\* timeout= bounds each wait for bytes, not the whole call: a server that
\* keeps sending within that gap holds the call for ever.
NeverReturns == "NeverReturns"

Statuses == {200, 204, 302, 404, 500}

Moved == BASE_URL \o <<"/", "moved", "/">>

\* The redirect targets one call followed (allow_redirects is the default).
Histories == { <<>>, <<Moved>> }

Response(exc, status, text, history) ==
  [exc |-> exc, status_code |-> status, text |-> text, history |-> history]

Anchor(href, strings) == [href |-> href, strings |-> strings]

listing(make, y) == <<"/">> \o make \o <<"/">> \o str(y) \o <<"/">>

Hrefs(make, y) ==
  { listing(make, y) \o <<"camry-le", "/">>,
    listing(make, y) \o <<"camry-le", "/", "bundle", "/">>,
    <<TAB>> \o listing(make, y) \o <<"corolla", "/">> \o <<CR, LF>>,
    listing(make, y) \o <<"corolla", "/", "bundle", "/", SP>>,
    listing(make, y + 1) \o <<"camry-le", "/">>,
    BASE_URL \o listing(make, y) \o <<"camry-le", "/">> }

Texts ==
  { << <<"Camry", SP, "LE">> >>,
    << <<NBSP, "Camry", SP>>, <<"LE", CR, LF>> >>,
    << <<"Camry", LF, "LE">> >>,
    << <<SP>> >>,
    << >> }

Anchors(make, y) == { Anchor(h, t) : h \in Hrefs(make, y), t \in Texts }

RECURSIVE SeqsUpTo(_, _)
SeqsUpTo(S, n) ==
  IF n = 0 THEN { <<>> }
  ELSE LET shorter == SeqsUpTo(S, n - 1)
       IN  shorter \cup { Append(p, a) : p \in shorter, a \in S }

Pages(make, y) == SeqsUpTo(Anchors(make, y), MaxLinks)

ScenarioPage(make, y) ==
  << Anchor(listing(make, y) \o <<"camry-le", "/">>, << <<"Camry", SP, "LE">> >>),
     Anchor(listing(make, y) \o <<"camry-le", "/", "bundle", "/">>, << <<"Bundle">> >>),
     Anchor(listing(make, y + 1) \o <<"camry-le", "/">>, << <<"Next">> >>) >>

MessyPage(make, y) ==
  << Anchor(listing(make, y) \o <<"corolla", "/">>, << <<"Corolla", LF, "DX">> >>),
     Anchor(<<TAB>> \o listing(make, y) \o <<"camry-le", "/">>,
            << <<"Camry", CR, "SE", SP>>, <<"LE", FF>> >>),
     Anchor(listing(make, y) \o <<"tercel", "/">>, << >>),
     Anchor(listing(make, y) \o <<"corolla", "/">>, << <<"Corolla", LF, "DX">> >>) >>

CrawlPages(make, y) ==
  { IF y % 2 = 0 THEN ScenarioPage(make, y) ELSE MessyPage(make, y) }

Failures ==
  { Response(e, 0, <<>>, <<>>) : e \in RequestExceptions }
  \cup { Response(e, 302, <<>>, <<>>) : e \in OtherExceptions }
  \cup { Response(NeverReturns, 200, <<>>, <<>>) }

ProbeResponses ==
  Failures \cup { Response(NoException, s, <<>>, h) : s \in Statuses, h \in Histories }

\* A 204 response has no body: r.text is empty whatever the server sent.
ListingResponses(pages) ==
  Failures
  \cup { Response(NoException, 204, <<>>, h) : h \in Histories }
  \cup { Response(NoException, s, p, h) : s \in Statuses \ {204}, p \in pages, h \in Histories }

-----------------------------------------------------------------------------
(* probe_year *)

\* How a function that calls requests.get(url) once ends: the call does not
\* return, or an exception the `except RequestException` clause does not
\* catch leaves the function, or the function returns.
outcome(r) ==
  IF r.exc = NeverReturns THEN "blocks"
  ELSE IF r.exc \notin RequestExceptions \cup {NoException} THEN "raises"
  ELSE "returns"

\* The HTTP requests one requests.get(url) call sends: the one to url, then
\* one to each redirect target it follows.
sent(url, r) == <<url>> \o r.history

\* Mutant: any 2xx status counts as present (r.ok-style test).
probe_year2xx(make, y, r) ==
  LET url == BASE_URL \o <<"/">> \o make \o <<"/">> \o str(y) \o <<"/">>
  IN  [ calls   |-> <<url>>,
        sent    |-> sent(url, r),
        outcome |-> outcome(r),
        ret     |-> IF r.exc = NoException /\ 200 <= r.status_code /\ r.status_code < 300
                    THEN url ELSE None ]

\* Mutant: a failed probe is retried once.
probe_yearRetry(make, y, r) ==
  LET url == BASE_URL \o <<"/">> \o make \o <<"/">> \o str(y) \o <<"/">>
      hit == r.exc = NoException /\ r.status_code = 200
  IN  [ calls   |-> IF hit THEN <<url>> ELSE <<url, url>>,
        sent    |-> IF hit THEN sent(url, r) ELSE sent(url, r) \o sent(url, r),
        outcome |-> outcome(r),
        ret     |-> IF hit THEN url ELSE None ]

\* calls: the requests.get calls made; ret: the value returned, meaningful
\* when outcome is "returns".
probe_year(make, y, r) ==
  LET url == BASE_URL \o <<"/">> \o make \o <<"/">> \o str(y) \o <<"/">>
  IN  [ calls   |-> <<url>>,
        sent    |-> sent(url, r),
        outcome |-> outcome(r),
        ret     |-> IF r.exc = NoException /\ r.status_code = 200 THEN url ELSE None ]

-----------------------------------------------------------------------------
(* get_models_for_year *)

RECURSIVE join_stripped(_)
join_stripped(strings) ==
  IF strings = <<>> THEN <<>>
  ELSE strip(Head(strings)) \o join_stripped(Tail(strings))

get_text(a) == join_stripped(a.strings)

\* Mutant: the "/bundle/" suffix test is dropped.
keepNoBundle(href, prefix) == startswith(href, prefix)

keep(href, prefix) ==
  startswith(href, prefix) /\ ~endswith(href, <<"/", "bundle", "/">>)

\* Mutant: the "/bundle" segment is not inserted.
bundle_ofNoSegment(href) == BASE_URL \o href

bundle_of(href) == BASE_URL \o <<"/", "bundle">> \o href

RECURSIVE select_loop(_, _, _)
select_loop(prefix, anchors, entries) ==
  IF anchors = <<>> THEN entries
  ELSE LET a    == Head(anchors)
           href == strip(a.href)
       IN  select_loop(prefix, Tail(anchors),
             IF keep(href, prefix)
             THEN Append(entries, <<get_text(a), bundle_of(href)>>)
             ELSE entries)

raise_for_status(r) == 400 <= r.status_code /\ r.status_code < 600

\* warned and entries are meaningful when outcome is "returns": an exception
\* that is not a RequestException leaves the function before the warning.
get_models_for_year(make, y, url, r) ==
  IF outcome(r) # "returns"
  THEN [ calls |-> <<url>>, sent |-> sent(url, r), outcome |-> outcome(r),
         warned |-> FALSE, entries |-> <<>> ]
  ELSE IF r.exc \in RequestExceptions \/ raise_for_status(r)
  THEN [ calls |-> <<url>>, sent |-> sent(url, r), outcome |-> "returns",
         warned |-> TRUE, entries |-> <<>> ]
  ELSE [ calls |-> <<url>>, sent |-> sent(url, r), outcome |-> "returns",
         warned |-> FALSE,
         entries |-> select_loop(<<"/">> \o make \o <<"/">> \o str(y) \o <<"/">>,
                                 r.text, <<>>) ]

-----------------------------------------------------------------------------
(* csv.DictWriter with the default (excel) dialect *)

needs_quote(field) ==
  \E i \in DOMAIN field : field[i] \in {COMMA, QUOTE, CR, LF}

RECURSIVE double_quotes(_)
double_quotes(field) ==
  IF field = <<>> THEN <<>>
  ELSE (IF Head(field) = QUOTE THEN <<QUOTE, QUOTE>> ELSE <<Head(field)>>)
       \o double_quotes(Tail(field))

csv_field(field) ==
  IF needs_quote(field) THEN <<QUOTE>> \o double_quotes(field) \o <<QUOTE>>
  ELSE field

RECURSIVE csv_join(_)
csv_join(fields) ==
  IF Len(fields) = 1 THEN csv_field(fields[1])
  ELSE csv_field(Head(fields)) \o <<COMMA>> \o csv_join(Tail(fields))

writerow(fields) == csv_join(fields) \o lineterminator

writeheader == writerow(keys)

dict_row(d) == <<d.make, d.model, d.year, d.bundle_url>>

RECURSIVE writerows(_)
writerows(rows) ==
  IF rows = <<>> THEN <<>>
  ELSE writerow(dict_row(Head(rows))) \o writerows(Tail(rows))

\* Mutant: writeheader() is not called.
write_csvNoHeader(rows) == writerows(rows)

write_csv(rows) == writeheader \o writerows(rows)

-----------------------------------------------------------------------------
(* build_and_write_manifest *)

\* An effect of the run.  For a requests.get call, `outcome` tells how the
\* function that made it ended, and ok and entries are what it returned.
Event(ev, m, y, url, ok, entries) ==
  [ev |-> ev, mi |-> m, year |-> y, url |-> url, ok |-> ok, entries |-> entries,
   outcome |-> "returns"]

Sleep == Event("sleep", 0, 0, None, TRUE, <<>>)

\* One event per requests.get call; the redirects a call follows are not
\* recorded.
RequestEvents(ev, m, y, calls, ok, entries) ==
  [i \in DOMAIN calls |-> Event(ev, m, y, calls[i], ok, entries)]

\* The events of a function that did not return.
Unfinished(ev, m, y, calls, how) ==
  [i \in DOMAIN calls |->
     [Event(ev, m, y, calls[i], FALSE, <<>>) EXCEPT !.outcome = how]]

\* Where build_and_write_manifest is after a call that did not return: an
\* exception leaves lines 73 / 78 and ends the run, a blocked call holds it.
stopped(how) == IF how = "raises" THEN "raised" ELSE "blocked"

\* Mutant: the `continue` after an absent probe is never taken.
falsyNever(url) == FALSE

falsy(url) == url = None

\* Mutant: new rows are inserted at the front of the accumulator.
extendFront(rows, make, y, entries) ==
  [i \in DOMAIN entries |->
     [ make       |-> unquote(make),
       model      |-> entries[i][1],
       year       |-> str(y),
       bundle_url |-> entries[i][2] ]] \o rows

extend(rows, make, y, entries) ==
  rows \o [i \in DOMAIN entries |->
             [ make       |-> unquote(make),
               model      |-> entries[i][1],
               year       |-> str(y),
               bundle_url |-> entries[i][2] ]]

next_iteration(m, y) ==
  IF y + 1 < YEAR_END + 1 THEN [pc |-> "probe", mi |-> m, year |-> y + 1]
  ELSE IF m < Len(MAKES) THEN [pc |-> "make", mi |-> m + 1, year |-> YEAR_START]
  ELSE [pc |-> "unlink", mi |-> m, year |-> y]

OldArtifact == write_csv(<< [make |-> <<"Yugo">>, model |-> <<"GV">>,
                             year |-> str(1988), bundle_url |-> <<"old">>] >>)

NoCall == [fn |-> "none"]

Record(level, msg, m, y, n) ==
  [level |-> level, msg |-> msg, mi |-> m, year |-> y, n |-> n]

NoRecord == Record("none", "", 0, 0, 0)

Init ==
  /\ pc = "make"
  /\ mi = 1
  /\ year = YEAR_START
  /\ year_url = None
  /\ manifest = <<>>
  /\ file \in {Absent, OnDisk(OldArtifact)}
  /\ trace = <<>>
  /\ log = NoRecord
  /\ unit = NoCall

MakeStep ==
  /\ pc = "make"
  /\ trace' = Append(trace, Sleep)
  /\ year' = YEAR_START
  /\ pc' = "probe"
  /\ log' = Record("info", "Checking", mi, 0, 0)
  /\ UNCHANGED <<mi, year_url, manifest, file, unit>>

ProbeStep ==
  /\ pc = "probe"
  /\ \E r \in ProbeResponses :
       LET p == probe_year(MAKES[mi], year, r)
           n == next_iteration(mi, year)
       IN  IF p.outcome # "returns"
           THEN /\ trace' = trace \o Unfinished("probe", mi, year, p.calls, p.outcome)
                /\ pc' = stopped(p.outcome)
                /\ UNCHANGED <<mi, year, year_url>>
           ELSE /\ year_url' = p.ret
                /\ trace' = trace \o RequestEvents("probe", mi, year, p.calls,
                                                   p.ret # None, <<>>)
                /\ IF falsy(p.ret)
                   THEN pc' = n.pc /\ mi' = n.mi /\ year' = n.year
                   ELSE pc' = "fetch" /\ UNCHANGED <<mi, year>>
  /\ log' = NoRecord
  /\ UNCHANGED <<manifest, file, unit>>

FetchStep ==
  /\ pc = "fetch"
  /\ \E r \in ListingResponses(CrawlPages(MAKES[mi], year)) :
       LET g == get_models_for_year(MAKES[mi], year, year_url, r)
       IN  IF g.outcome # "returns"
           THEN /\ trace' = trace \o Unfinished("fetch", mi, year, g.calls, g.outcome)
                /\ pc' = stopped(g.outcome)
                /\ log' = Record("info", "Found", mi, year, 0)
                /\ UNCHANGED manifest
           ELSE /\ trace' = trace \o RequestEvents("fetch", mi, year, g.calls,
                                                   TRUE, g.entries)
                /\ manifest' = extend(manifest, MAKES[mi], year, g.entries)
                /\ log' = IF g.warned
                          THEN Record("warning", "Couldn't fetch", mi, year, 0)
                          ELSE Record("info", "Found", mi, year, 0)
                /\ pc' = "sleep"
  /\ UNCHANGED <<mi, year, year_url, file, unit>>

SleepStep ==
  /\ pc = "sleep"
  /\ trace' = Append(trace, Sleep)
  /\ LET n == next_iteration(mi, year)
     IN  pc' = n.pc /\ mi' = n.mi /\ year' = n.year
  /\ log' = NoRecord
  /\ UNCHANGED <<year_url, manifest, file, unit>>

\* Mutant: the old artifact is not unlinked before the write.
UnlinkStepSkipped ==
  /\ pc = "unlink"
  /\ pc' = "write"
  /\ log' = NoRecord
  /\ UNCHANGED <<mi, year, year_url, manifest, file, trace, unit>>

UnlinkStep ==
  /\ pc = "unlink"
  /\ file' = Absent
  /\ trace' = Append(trace, Event("unlink", 0, 0, None, file # Absent, <<>>))
  /\ pc' = "write"
  /\ log' = NoRecord
  /\ UNCHANGED <<mi, year, year_url, manifest, unit>>

WriteStep ==
  /\ pc = "write"
  /\ file' = OnDisk(write_csv(manifest))
  /\ trace' = Append(trace, Event("write", 0, 0, None, TRUE, <<>>))
  /\ pc' = "done"
  /\ log' = Record("info", "Wrote", 0, 0, Len(manifest))
  /\ UNCHANGED <<mi, year, year_url, manifest, unit>>

Next == MakeStep \/ ProbeStep \/ FetchStep \/ SleepStep \/ UnlinkStep \/ WriteStep

Spec == Init /\ [][Next]_vars

\* The single thread takes its next step whenever it has one.  A call that
\* never returns and an exception that ends the run are outcomes of the
\* request steps ("blocked", "raised"), after which there is no next step.
FairSpec == Spec /\ WF_vars(Next)

-----------------------------------------------------------------------------
(* Direct calls of the two pure functions, on arbitrary bounded inputs *)

Years == YEAR_START .. YEAR_END

ProbeCall ==
  /\ unit = NoCall
  /\ \E m \in 1 .. Len(MAKES), y \in Years, r \in ProbeResponses :
       unit' = [ fn |-> "probe_year", make |-> MAKES[m], year |-> y, resp |-> r,
                 out |-> probe_year(MAKES[m], y, r) ]
  /\ UNCHANGED <<pc, mi, year, year_url, manifest, file, trace, log>>

ScrapeCall ==
  /\ unit = NoCall
  /\ \E m \in 1 .. Len(MAKES), y \in Years :
       \E r \in ListingResponses(Pages(MAKES[m], y)) :
         unit' = [ fn |-> "get_models_for_year", make |-> MAKES[m], year |-> y,
                   resp |-> r,
                   out |-> get_models_for_year(MAKES[m], y,
                                              BASE_URL \o listing(MAKES[m], y), r) ]
  /\ UNCHANGED <<pc, mi, year, year_url, manifest, file, trace, log>>

UnitNext == ProbeCall \/ ScrapeCall

\* The two functions neither read nor write the artifact.
UnitInit == Init /\ file = Absent

UnitSpec == UnitInit /\ [][UnitNext]_vars

-----------------------------------------------------------------------------
(* Vocabulary of the properties *)

IsRequest(e) == e.ev \in {"probe", "fetch"}

Events(ev) == { i \in DOMAIN trace : trace[i].ev = ev }

EventsOf(ev, m, y) ==
  { i \in Events(ev) : trace[i].mi = m /\ trace[i].year = y }

Pairs == (1 .. Len(MAKES)) \X Years

\* The run has not got past the last (make, year): it is in the loops, or it
\* stopped there.
Crawling == pc \in {"make", "probe", "fetch", "sleep", "raised", "blocked"}

Returned(i) == trace[i].outcome = "returns"

ProbedAbsent(m, y) ==
  \E i \in EventsOf("probe", m, y) : Returned(i) /\ ~trace[i].ok

ProbedPresent(m, y) ==
  \E i \in EventsOf("probe", m, y) : Returned(i) /\ trace[i].ok

\* A line is counted by the line feed that ends it.
Lines(text) == Cardinality({ i \in DOMAIN text : text[i] = LF })

LineFeeds(field) == Cardinality({ i \in DOMAIN field : field[i] = LF })

RECURSIVE EmbeddedLineFeeds(_)
EmbeddedLineFeeds(rows) ==
  IF rows = <<>> THEN 0
  ELSE LineFeeds(Head(rows).make) + LineFeeds(Head(rows).model)
       + LineFeeds(Head(rows).year) + LineFeeds(Head(rows).bundle_url)
       + EmbeddedLineFeeds(Tail(rows))

\* A reader of the excel dialect: the records of a CSV text, each a sequence
\* of fields.  csv_record reads one record starting at token i.
RECURSIVE csv_record(_, _, _, _, _)
csv_record(text, i, quoted, field, row) ==
  IF i > Len(text) THEN [row |-> Append(row, field), next |-> i]
  ELSE LET t == text[i]
       IN  IF quoted
           THEN IF t = QUOTE /\ i < Len(text) /\ text[i + 1] = QUOTE
                THEN csv_record(text, i + 2, TRUE, Append(field, QUOTE), row)
                ELSE IF t = QUOTE
                THEN csv_record(text, i + 1, FALSE, field, row)
                ELSE csv_record(text, i + 1, TRUE, Append(field, t), row)
           ELSE IF t = QUOTE
                THEN csv_record(text, i + 1, TRUE, field, row)
                ELSE IF t = COMMA
                THEN csv_record(text, i + 1, FALSE, <<>>, Append(row, field))
                ELSE IF t = CR /\ i < Len(text) /\ text[i + 1] = LF
                THEN [row |-> Append(row, field), next |-> i + 2]
                ELSE IF t \in {CR, LF}
                THEN [row |-> Append(row, field), next |-> i + 1]
                ELSE csv_record(text, i + 1, FALSE, Append(field, t), row)

RECURSIVE csv_records(_, _)
csv_records(text, i) ==
  IF i > Len(text) THEN <<>>
  ELSE LET r == csv_record(text, i, FALSE, <<>>, <<>>)
       IN  <<r.row>> \o csv_records(text, r.next)

Records(text) == csv_records(text, 1)

DigitValue(t) == CHOOSE d \in 0 .. 9 : Digits[d + 1] = t

RECURSIVE int(_)
int(s) == IF Len(s) = 1 THEN DigitValue(s[1])
          ELSE 10 * int(SubSeq(s, 1, Len(s) - 1)) + DigitValue(s[Len(s)])

RECURSIVE Concat(_)
Concat(seqs) == IF seqs = <<>> THEN <<>> ELSE Head(seqs) \o Concat(Tail(seqs))

\* The n-th smallest element of a finite set of integers.
Nth(Q, n) == CHOOSE q \in Q : Cardinality({ p \in Q : p <= q }) = n

BundleSuffix == <<"/", "bundle", "/">>

Fetched(r) == r.exc = NoException /\ r.status_code \in 200 .. 299

-----------------------------------------------------------------------------
\* C1: a (make, year) whose probe returned None gets no listing fetch and no
\* manifest entry carrying that make and year.
C1_AbsentProbeContributesNothing ==
  \A p \in Pairs :
    ProbedAbsent(p[1], p[2]) =>
      /\ EventsOf("fetch", p[1], p[2]) = {}
      /\ \A k \in DOMAIN manifest :
           ~(manifest[k].make = unquote(MAKES[p[1]]) /\ manifest[k].year = str(p[2]))

C1_Witness ==
  /\ pc = "done"
  /\ \E p \in Pairs : ProbedAbsent(p[1], p[2])
  /\ manifest # <<>>

\* C2: between any two outbound requests of a run there is at least one
\* throttle sleep, whether the earlier request succeeded or failed.
C2_SleepBetweenRequests ==
  \A i, j \in DOMAIN trace :
    (i < j /\ IsRequest(trace[i]) /\ IsRequest(trace[j]))
      => \E k \in (i + 1) .. (j - 1) : trace[k].ev = "sleep"

\* C3 (as stated): on a fetched page the result is, in document order and
\* without deduplication, one pair per link whose href attribute begins with
\* "/{make}/{year}/" and does not end with "/bundle/"; the model is the link's
\* text stripped, the bundle URL is base + "/bundle" + href.
C3_Original ==
  (unit.fn = "get_models_for_year" /\ Fetched(unit.resp)) =>
    LET page   == unit.resp.text
        prefix == <<"/">> \o unit.make \o <<"/">> \o str(unit.year) \o <<"/">>
        Q      == { i \in DOMAIN page :
                      startswith(page[i].href, prefix)
                      /\ ~endswith(page[i].href, BundleSuffix) }
        out    == unit.out.entries
    IN  /\ Len(out) = Cardinality(Q)
        /\ \A n \in 1 .. Len(out) :
             out[n] = << strip(Concat(page[Nth(Q, n)].strings)),
                         BASE_URL \o <<"/", "bundle">> \o page[Nth(Q, n)].href >>

\* C3 (amended): the same with the href taken after stripping surrounding
\* whitespace, in the filter and in the bundle URL, and with the model being
\* the concatenation of the link's text nodes, each stripped.
C3_ScrapeSelectsDetailLinks ==
  (unit.fn = "get_models_for_year" /\ Fetched(unit.resp)) =>
    LET page   == unit.resp.text
        prefix == <<"/">> \o unit.make \o <<"/">> \o str(unit.year) \o <<"/">>
        Q      == { i \in DOMAIN page :
                      startswith(strip(page[i].href), prefix)
                      /\ ~endswith(strip(page[i].href), BundleSuffix) }
        out    == unit.out.entries
    IN  /\ Len(out) = Cardinality(Q)
        /\ \A n \in 1 .. Len(out) :
             LET a == page[Nth(Q, n)]
             IN  out[n] = << Concat([k \in DOMAIN a.strings |-> strip(a.strings[k])]),
                             BASE_URL \o <<"/", "bundle">> \o strip(a.href) >>

C3_Witness ==
  /\ unit.fn = "get_models_for_year"
  /\ unit.resp.exc = NoException /\ unit.resp.status_code = 200
  /\ unit.make = <<"Toyota">>
  /\ unit.resp.text =
       << Anchor(listing(unit.make, unit.year) \o <<"camry-le", "/">>,
                 << <<"Camry", SP, "LE">> >>),
          Anchor(listing(unit.make, unit.year) \o <<"camry-le", "/", "bundle", "/">>,
                 << <<"Camry", SP, "LE">> >>) >>
  /\ unit.out.entries =
       << << <<"Camry", SP, "LE">>,
             BASE_URL \o <<"/", "bundle", "/", "Toyota", "/">> \o str(unit.year)
                      \o <<"/", "camry-le", "/">> >> >>

\* C4 (as stated): probe_year makes exactly one request, to
\* base/make/year/, and returns that URL whenever the status indicates
\* success (2xx); for every failure it returns None, without raising.  A
\* call that never returns is not among the failures the claim names.
C4_Original ==
  unit.fn = "probe_year" =>
    LET url == BASE_URL \o <<"/">> \o unit.make \o <<"/">> \o str(unit.year) \o <<"/">>
    IN  /\ unit.out.calls = <<url>>
        /\ unit.resp.exc # "NeverReturns" =>
             /\ unit.out.outcome = "returns"
             /\ unit.out.ret = IF Fetched(unit.resp) THEN url ELSE None

\* C4 (amended): probe_year makes exactly one requests.get call, to
\* base/make/year/, which sends the request to that URL and then one per
\* redirect it follows.  If the call returns a response, probe_year returns
\* the URL exactly when the status code is 200 and None for every other
\* status (the other 2xx included); if the call raises a RequestException it
\* returns None; if the call raises another exception probe_year raises it;
\* if the call never returns, neither does probe_year.
C4_ProbeReturnsUrlOn200 ==
  unit.fn = "probe_year" =>
    LET url == BASE_URL \o <<"/">> \o unit.make \o <<"/">> \o str(unit.year) \o <<"/">>
        r   == unit.resp
    IN  /\ unit.out.calls = <<url>>
        /\ unit.out.sent = <<url>> \o r.history
        /\ r.exc = NoException =>
             /\ unit.out.outcome = "returns"
             /\ unit.out.ret = IF r.status_code = 200 THEN url ELSE None
        /\ r.exc \in {"Timeout", "ConnectionError"} =>
             unit.out.outcome = "returns" /\ unit.out.ret = None
        /\ r.exc = "UnicodeDecodeError" => unit.out.outcome = "raises"
        /\ r.exc = "NeverReturns" => unit.out.outcome = "blocks"

C4_Witness ==
  /\ unit.fn = "probe_year"
  /\ unit.resp.exc = "UnicodeDecodeError" /\ unit.resp.status_code = 302
  /\ unit.out.outcome = "raises"
  /\ Len(unit.out.calls) = 1

\* C5: the artifact is untouched while (make, year) pairs remain; afterwards
\* the old artifact is deleted strictly before the new one is written, the
\* artifact is written exactly once, and before that write the disk holds
\* none of the run's entries.
C5_State ==
  /\ Crawling => Events("unlink") = {} /\ Events("write") = {}
  /\ Cardinality(Events("write")) <= 1
  /\ \A w \in Events("write") : \E u \in Events("unlink") : u < w
  /\ pc = "done" => Cardinality(Events("write")) = 1 /\ file = OnDisk(write_csv(manifest))
  /\ Events("write") = {} => file \in {Absent, OnDisk(OldArtifact)}

C5_Step ==
  /\ Crawling => file' = file
  /\ file' \notin {file, Absent} => file = Absent /\ Events("write") = {}

C5_ArtifactReplacedOnceAtEnd == [] C5_State /\ [][C5_Step]_vars

C5_Witness ==
  /\ pc = "done"
  /\ \E u \in Events("unlink") : trace[u].ok
  /\ manifest # <<>>
  /\ file = OnDisk(write_csv(manifest))

\* C6: whatever probes and listing fetches fail (timeout, connection error,
\* non-success status), no failure ends the run: it visits every configured
\* (make, year), terminates and writes the artifact; a listing fetch that
\* failed adds nothing to the accumulated entries and changes none.
C6_State ==
  /\ pc # "raised"
  /\ pc = "done" =>
       /\ \A p \in Pairs : EventsOf("probe", p[1], p[2]) # {}
       /\ Events("write") # {}
       /\ file = OnDisk(write_csv(manifest))

C6_Step ==
  (pc = "fetch" /\ pc' = "sleep" /\ log'.level = "warning")
    => manifest' = manifest

C6_RunSurvivesFailures == <>(pc = "done") /\ [] C6_State /\ [][C6_Step]_vars

\* C7: every emitted entry's bundle_url starts with
\* base + "/bundle/" + make + "/" + year + "/" for the configured (make, year)
\* under which it was discovered, whose probe returned present.
C7_BundleUrlPrefix ==
  /\ \A i \in Events("fetch") : \A n \in DOMAIN trace[i].entries :
       startswith(trace[i].entries[n][2],
                  BASE_URL \o <<"/", "bundle", "/">> \o MAKES[trace[i].mi]
                           \o <<"/">> \o str(trace[i].year) \o <<"/">>)
  /\ \A k \in DOMAIN manifest : \E p \in Pairs :
       /\ ProbedPresent(p[1], p[2])
       /\ manifest[k].make = unquote(MAKES[p[1]])
       /\ manifest[k].year = str(p[2])
       /\ startswith(manifest[k].bundle_url,
                     BASE_URL \o <<"/", "bundle", "/">> \o MAKES[p[1]]
                              \o <<"/">> \o str(p[2]) \o <<"/">>)

C7_Witness ==
  \E k \in DOMAIN manifest :
    /\ manifest[k].make = <<"Land", SP, "Rover">>
    /\ startswith(manifest[k].bundle_url,
                  BASE_URL \o <<"/", "bundle", "/", "Land", "%20", "Rover", "/">>)

\* C8 (as stated): the written artifact has exactly len(manifest)+1 lines,
\* whatever the entries' model text.
C8_Original ==
  pc = "done" => Lines(file.text) = Len(manifest) + 1

\* C8 (amended): the written artifact has exactly len(manifest)+1 CSV
\* records (fields holding CR, LF, a comma or a quote are quoted), and its
\* number of lines, each ended by a line feed, is len(manifest)+1 plus the
\* number of line feeds embedded in the entries' fields.
C8_ArtifactRecordCount ==
  pc = "done" =>
    /\ Len(Records(file.text)) = Len(manifest) + 1
    /\ Lines(file.text) = Len(manifest) + 1 + EmbeddedLineFeeds(manifest)

C8_Witness ==
  /\ pc = "done"
  /\ \E k \in DOMAIN manifest : LineFeeds(manifest[k].model) > 0
  /\ \E k \in DOMAIN manifest : manifest[k].model = <<>>

\* C9: the data rows of the artifact are the entries the scraper returned,
\* concatenated over makes in configured order and years ascending, each in
\* its returned order; each row's year is the decimal string of the year of
\* its pair, within [YEAR_START, YEAR_END].
RECURSIVE ReturnedRows(_)
ReturnedRows(events) ==
  IF events = <<>> THEN <<>>
  ELSE LET e == Head(events)
       IN  (IF e.ev = "fetch"
            THEN [n \in DOMAIN e.entries |->
                    <<e.entries[n][1], str(e.year), e.entries[n][2]>>]
            ELSE <<>>)
           \o ReturnedRows(Tail(events))

C9_RowsInIterationOrder ==
  pc = "done" =>
    LET rows == Tail(Records(file.text))
    IN  /\ [n \in DOMAIN rows |-> <<rows[n][2], rows[n][3], rows[n][4]>>]
             = ReturnedRows(trace)
        /\ \A i, j \in Events("fetch") :
             i < j => \/ trace[i].mi < trace[j].mi
                      \/ trace[i].mi = trace[j].mi /\ trace[i].year < trace[j].year
        /\ \A n \in DOMAIN rows : int(rows[n][3]) \in YEAR_START .. YEAR_END

C9_Witness ==
  /\ pc = "done"
  /\ \E i, j \in Events("fetch") :
       /\ trace[i].mi # trace[j].mi
       /\ trace[i].year # trace[j].year
       /\ Len(trace[i].entries) > 1
       /\ trace[j].entries # <<>>
  /\ Len(Records(file.text)) > 3

\* C10: one probe request per configured pair, one listing fetch per pair
\* probed present and none otherwise, so a complete run issues between
\* |makes| x |years| and 2 x |makes| x |years| requests.
Requests == { i \in DOMAIN trace : IsRequest(trace[i]) }

====
